---- MODULE Spec2Model ----
(***************************************************************************)
(* PDF_to_MD.py: a Streamlit page that sends an uploaded PDF to the        *)
(* Mistral OCR service and renders the returned pages as Markdown and,     *)
(* on request, as a Word document.                                         *)
(*                                                                         *)
(* Text is modelled as a sequence of tokens; a token is a piece of a       *)
(* Python string ("\n", "---", "### Page 1", a word).  Python's None is    *)
(* the empty tuple and a present value x is the one-element tuple <<x>>.   *)
(***************************************************************************)
EXTENDS Integers, Sequences, FiniteSets, TLC

\* ------------------------------------------------------------------ bounds
MaxPages == 2
MaxIndex == 1
MaxRuns == 3
MaxTicks == 2

\* --------------------------------------------------------- optional values
None == <<>>
Some(x) == <<x>>

\* the truth value Python gives an optional string or list: None and the
\* empty value are both false
TruthyStr(o) == o # None /\ o[1] # ""
TruthySeq(o) == o # None /\ o[1] # <<>>

\* ------------------------------------------------ the OCR response (inputs)
\* image_base64 payloads the provider can return, by what the libraries do
\* with them
B64_PNG == "iVBORw0KGgo="
B64_BADPAD == "iVBOR"
B64_NODIM == "Tk9ESU0="
B64_NOTIMG == "Tk9USU1H"

Image(b64) == [image_base64 |-> b64]

\* page texts: absent, empty, and lines with and without a final line end
TextValues ==
    {None, Some(<<>>), Some(<<"Hello", "\n", "World">>), Some(<<"\n", "a", "\n">>)}

\* values of p.images: absent, empty, and lists that mix images with and
\* without data and payloads the libraries accept and reject
ImageListValues ==
    {None,
     Some(<<>>),
     Some(<<Image(None), Image(Some(B64_PNG))>>),
     Some(<<Image(Some(B64_PNG)), Image(Some("")), Image(Some(B64_NODIM))>>),
     Some(<<Image(Some(""))>>),
     Some(<<Image(Some(B64_NODIM)), Image(Some(B64_NOTIMG))>>),
     Some(<<Image(Some(B64_PNG)), Image(Some(B64_BADPAD))>>)}

\* the pages with index i
PageResults(i) == [index : {i}, markdown : TextValues, images : ImageListValues]

\* the responses of at most n pages with ascending indexes from lo on
RECURSIVE Responses(_, _)
Responses(n, lo) ==
    IF n = 0 THEN {<<>>}
    ELSE {<<>>} \cup
         UNION {{<<p>> \o r : p \in PageResults(i), r \in Responses(n - 1, i + 1)} :
                i \in lo..MaxIndex}

\* ------------------------------------------------------ string operations
WHITESPACE == {"\n", " ", "\t", "\r"}

\* sep.join(parts)
RECURSIVE Join(_, _)
Join(parts, sep) ==
    IF parts = <<>> THEN <<>>
    ELSE IF Len(parts) = 1 THEN parts[1]
    ELSE parts[1] \o sep \o Join(Tail(parts), sep)

RECURSIVE LStrip(_)
LStrip(s) == IF s # <<>> /\ Head(s) \in WHITESPACE THEN LStrip(Tail(s)) ELSE s

RECURSIVE RStrip(_)
RStrip(s) ==
    IF s # <<>> /\ s[Len(s)] \in WHITESPACE THEN RStrip(SubSeq(s, 1, Len(s) - 1)) ELSE s

\* str.strip()
Strip(s) == RStrip(LStrip(s))

\* str.splitlines() over the line end "\n": the list of lines without their
\* line ends; a final line end opens no further line
RECURSIVE SplitLinesFrom(_, _)
SplitLinesFrom(s, line) ==
    IF s = <<>> THEN (IF line = <<>> THEN <<>> ELSE <<line>>)
    ELSE IF Head(s) = "\n" THEN <<line>> \o SplitLinesFrom(Tail(s), <<>>)
    ELSE SplitLinesFrom(Tail(s), Append(line, Head(s)))

splitlines(s) == SplitLinesFrom(s, <<>>)

\* --------------------------------------------------- response_to_markdown
\* variant: the heading numbered from zero
PageNumberOffByOne(p) == p.index

\* the page number of a heading or caption: p.index + 1
PageNumber(p) == p.index + 1

PageHeadingToken(n) == "### Page " \o ToString(n)

\* f"\n\n---\n\n### Page {p.index + 1}\n\n"
PageHeader(p) ==
    <<"\n", "\n", "---", "\n", "\n", PageHeadingToken(PageNumber(p)), "\n", "\n">>

ImagesHeading == <<"\n", "\n", "#### Extracted images", "\n">>

ImageEmbedToken(n, i, b64) ==
    "![page " \o ToString(n) \o " image " \o ToString(i)
        \o "](data:image/png;base64," \o b64 \o ")"

\* getattr(p, "images", []) or []
images_or_empty(p) == IF TruthySeq(p.images) THEN p.images[1] ELSE <<>>

\* variant: an image numbered by the embeds written so far
ImageNumberByEmbedCount(images, i) ==
    Cardinality({j \in 1..i : TruthyStr(images[j].image_base64)})

\* enumerate(images, start=1): the number of an image is its position in the
\* page's image list
ImageNumber(images, i) == i

\* the parts appended for the images i.. of page p
RECURSIVE MdImageParts(_, _, _)
MdImageParts(p, images, i) ==
    IF i > Len(images) THEN <<>>
    ELSE LET b64 == images[i].image_base64
         IN  (IF TruthyStr(b64)
              THEN <<<<"\n", ImageEmbedToken(PageNumber(p), ImageNumber(images, i), b64[1]), "\n">>>>
              ELSE <<>>)
             \o MdImageParts(p, images, i + 1)

\* the parts one iteration of the page loop appends to md_parts
MdPageParts(p) ==
    <<PageHeader(p)>>
    \o (IF TruthySeq(p.markdown) THEN <<p.markdown[1]>> ELSE <<>>)
    \o (LET images == images_or_empty(p)
        IN  IF images # <<>>
            THEN <<ImagesHeading>> \o MdImageParts(p, images, 1)
            ELSE <<>>)

RECURSIVE MdParts(_)
MdParts(pages) ==
    IF pages = <<>> THEN <<>> ELSE MdPageParts(Head(pages)) \o MdParts(Tail(pages))

response_to_markdown(r) == Strip(Join(MdParts(r), <<"\n">>))

\* ------------------------------------------------- response_to_docx_bytes
\* Inches(6)
SizedWidth == 6
\* doc.add_picture(bio) without a width keeps the picture's native size
NativeWidth == 0

\* base64.b64decode(b64): raises binascii.Error on incorrect padding
B64DecodeRaises(b64) == b64 = B64_BADPAD

B64Decode(b64) ==
    CASE b64 = B64_PNG -> "png bytes"
      [] b64 = B64_NODIM -> "png bytes without dimensions"
      [] b64 = B64_NOTIMG -> "bytes of no image"

\* doc.add_picture(bio, width=...): python-docx raises when it cannot read
\* the image (either call) or cannot scale it (the sized call)
AddPictureRaises(bytes, width) ==
    \/ bytes = "bytes of no image"
    \/ bytes = "png bytes without dimensions" /\ width = SizedWidth

Heading(n) == <<"heading", 2, "Page " \o ToString(n)>>
Paragraph(line) == <<"paragraph", line>>
Picture(bytes, width) == <<"picture", bytes, width>>
PageBreak == <<"page_break">>

Returned(v, calls) == [status |-> "returned", value |-> v, calls |-> calls]
Raised(e, calls) == [status |-> "raised", value |-> e, calls |-> calls]

MissingDocxError == "RuntimeError: python-docx is not installed. Run: pip install python-docx"

ParagraphsOf(lines) == [k \in 1..Len(lines) |-> Paragraph(lines[k])]

\* the except branch of the sized embed: bio.seek(0); doc.add_picture(bio)
EmbedRetry(doc, calls, bytes) ==
    IF AddPictureRaises(bytes, NativeWidth)
    THEN Raised("UnrecognizedImageError", Append(calls, <<bytes, NativeWidth>>))
    ELSE Returned(Append(doc, Picture(bytes, NativeWidth)), Append(calls, <<bytes, NativeWidth>>))

\* try: doc.add_picture(bio, width=Inches(6)) except Exception: retry
EmbedPicture(doc, calls, bytes) ==
    IF AddPictureRaises(bytes, SizedWidth)
    THEN EmbedRetry(doc, Append(calls, <<bytes, SizedWidth>>), bytes)
    ELSE Returned(Append(doc, Picture(bytes, SizedWidth)), Append(calls, <<bytes, SizedWidth>>))

\* the image loop of one page, from image i on
RECURSIVE DocxImages(_, _, _, _)
DocxImages(doc, calls, images, i) ==
    IF i > Len(images) THEN Returned(doc, calls)
    ELSE LET b64 == images[i].image_base64
         IN  IF ~TruthyStr(b64) THEN DocxImages(doc, calls, images, i + 1)
             ELSE IF B64DecodeRaises(b64[1]) THEN Raised("binascii.Error", calls)
             ELSE LET r == EmbedPicture(doc, calls, B64Decode(b64[1]))
                  IN  IF r.status = "raised" THEN r
                      ELSE DocxImages(r.value, r.calls, images, i + 1)

\* variant: a page break only between pages
DocxPageBreakBetween(doc, calls, p) ==
    LET broken == IF doc = <<>> THEN doc ELSE Append(doc, PageBreak)
        headed == Append(broken, Heading(PageNumber(p)))
        texted == IF TruthySeq(p.markdown)
                  THEN headed \o ParagraphsOf(splitlines(p.markdown[1]))
                  ELSE headed
    IN  DocxImages(texted, calls, images_or_empty(p), 1)

\* one iteration of the page loop
DocxPage(doc, calls, p) ==
    LET headed == Append(doc, Heading(PageNumber(p)))
        texted == IF TruthySeq(p.markdown)
                  THEN headed \o ParagraphsOf(splitlines(p.markdown[1]))
                  ELSE headed
        r == DocxImages(texted, calls, images_or_empty(p), 1)
    IN  IF r.status = "raised" THEN r
        ELSE Returned(Append(r.value, PageBreak), r.calls)

RECURSIVE DocxPages(_, _, _)
DocxPages(doc, calls, pages) ==
    IF pages = <<>> THEN Returned(doc, calls)
    ELSE LET r == DocxPage(doc, calls, Head(pages))
         IN  IF r.status = "raised" THEN r
             ELSE DocxPages(r.value, r.calls, Tail(pages))

\* doc.save(out); out.getvalue(): the package that holds the document body
DocxPackage(doc) == <<"PK", doc>>

response_to_docx_bytes(r, has_python_docx) ==
    IF ~has_python_docx THEN Raised(MissingDocxError, <<>>)
    ELSE LET built == DocxPages(<<>>, <<>>, r)
         IN  IF built.status = "raised" THEN built
             ELSE Returned(DocxPackage(built.value), built.calls)

\* ---------------------------------------------------------------- state
VARIABLES
    HAS_PYTHON_DOCX,  \* set once at import
    secrets_key,      \* st.secrets.get("MISTRAL_API_KEY", None)
    env_key,          \* os.getenv("MISTRAL_API_KEY")
    uploaded,         \* the file uploader's value
    want_docx,        \* the checkbox
    session_state,    \* st.session_state: the keys md and docx_bytes
    offered,          \* the download buttons on the page
    pc,               \* where the script thread is
    fut,              \* the future of the submitted task
    in_flight,        \* OCR calls running in the worker
    pct,              \* the progress animation's counter
    resp,             \* the OCR response
    md,               \* the script's md
    docx,             \* the outcome of response_to_docx_bytes(resp)
    run               \* what the latest Start OCR run did

vars == <<HAS_PYTHON_DOCX, secrets_key, env_key, uploaded, want_docx, session_state,
          offered, pc, fut, in_flight, pct, resp, md, docx, run>>

config == <<HAS_PYTHON_DOCX, secrets_key, env_key>>
app == <<uploaded, want_docx, session_state, offered, pc, fut, in_flight, pct, run>>

\* ----------------------------------------------------------- get_api_key
\* the secret when it is set and not empty, else the environment variable
get_api_key(secret, env) == IF ~TruthyStr(secret) THEN env ELSE secret

api_key == get_api_key(secrets_key, env_key)

\* ------------------------------------------------------------- messages
ERR_NO_UPLOAD == "Please upload a PDF first."
ERR_NO_KEY == "No API key found. Add it to Streamlit Secrets or your environment."
ERR_OCR == "An unexpected error occurred while calling Mistral OCR."
ERR_NO_DOCX == "python-docx is not installed. Run: pip install python-docx (st.error)"

EmptyState == [md |-> None, docx_bytes |-> None]

NoRun ==
    [id |-> 0, validated |-> FALSE, errors |-> {}, clients |-> 0, submitted |-> 0,
     result_reads |-> 0, done_status |-> FALSE, md_calls |-> 0, docx_calls |-> 0,
     ticks |-> 0, uncaught |-> None, reran |-> FALSE,
     uploaded |-> None, api_key |-> None, want_docx |-> FALSE, request |-> None,
     last_valid |-> 0, prev_valid |-> 0]

\* the record of a run that starts after the run recorded in r: its number,
\* the inputs it reads, and the numbers of the latest two runs that passed
\* validation
StartedRun(r, up, key, want, valid) ==
    [NoRun EXCEPT !.id = r.id + 1, !.uploaded = up, !.api_key = key, !.want_docx = want,
                  !.validated = valid,
                  !.last_valid = IF valid THEN r.id + 1 ELSE r.last_valid,
                  !.prev_valid = IF valid THEN r.last_valid ELSE r.prev_valid]

\* an artifact with the run that produced it
Artifact(id, data) == [run |-> id, data |-> data]

\* the right column: a Markdown button when md is in the session state and
\* a Word button when besides session_state.get(docx_bytes) is true
DownloadButtons(state) ==
    IF state.md = None THEN EmptyState
    ELSE [md |-> state.md, docx_bytes |-> state.docx_bytes]

\* ------------------------------------------------------------ the script
\* Every interaction runs the script from the top: the right column is drawn
\* from the session state as it is then, and stays on the page until the
\* next pass draws it again.  Widgets are touched only between runs.

\* the OCR responses the provider returns to the page
AppResponses ==
    {<<>>,
     <<[index |-> 0, markdown |-> Some(<<"Hello", "\n", "World">>),
        images |-> Some(<<[image_base64 |-> Some(B64_PNG)]>>)]>>,
     <<[index |-> 0, markdown |-> Some(<<"a">>),
        images |-> Some(<<[image_base64 |-> Some(B64_NOTIMG)]>>)]>>}

\* base64.b64encode(pdf_bytes).decode("utf-8")
B64Encode(bytes) == CASE bytes = "%PDF" -> "JVBERg=="

pdf_bytes_to_data_url(pdf_bytes) == "data:application/pdf;base64," \o B64Encode(pdf_bytes)

\* the request run_ocr sends: client.ocr.process(...)
run_ocr(pdf_bytes) ==
    [model |-> "mistral-ocr-latest",
     document_url |-> pdf_bytes_to_data_url(pdf_bytes),
     include_image_base64 |-> TRUE]

PCT_STEP == 3
PCT_MODULUS == 100

Future(state, value) == [state |-> state, value |-> value]

\* variant: the loop condition inverted
FutDoneInverted(f) == f.state = "running"

\* fut.done()
FutDone(f) == f.state # "running"

\* variant: only a key that is None counts as missing
ValidationErrorsKeyNotNone(up, key) ==
    (IF up = None THEN {ERR_NO_UPLOAD} ELSE {})
    \cup (IF key = None THEN {ERR_NO_KEY} ELSE {})

\* the two checks under "if run:"; each failed check reports its error and
\* sets is_ready_to_run to False
ValidationErrors(up, key) ==
    (IF up = None THEN {ERR_NO_UPLOAD} ELSE {})
    \cup (IF ~TruthyStr(key) THEN {ERR_NO_KEY} ELSE {})

\* variant: the previous results are kept
KeepState(state) == state

\* "Clear previous state": del st.session_state.md / .docx_bytes
ClearState(state) == EmptyState

\* a pass of the script without the button: only the page is drawn
Rerender ==
    /\ offered' = DownloadButtons(session_state)
    /\ UNCHANGED <<session_state, pc, fut, in_flight, pct, run>>

Upload ==
    /\ pc = "idle"
    /\ \E f \in {None, Some("%PDF")} :
        /\ f # uploaded
        /\ uploaded' = f
    /\ Rerender
    /\ UNCHANGED <<config, want_docx, resp, md, docx>>

ToggleDocx ==
    /\ pc = "idle"
    /\ want_docx' = ~want_docx
    /\ Rerender
    /\ UNCHANGED <<config, uploaded, resp, md, docx>>

\* a click on a download button runs the script again
Download ==
    /\ pc = "idle"
    /\ offered.md # None
    /\ Rerender
    /\ UNCHANGED <<config, uploaded, want_docx, resp, md, docx>>

\* "Start OCR" with a missing upload or key: the errors are reported and the
\* pass ends
StartRejected ==
    /\ pc = "idle"
    /\ run.id < MaxRuns
    /\ ValidationErrors(uploaded, api_key) # {}
    /\ run' = [StartedRun(run, uploaded, api_key, want_docx, FALSE)
                   EXCEPT !.errors = ValidationErrors(uploaded, api_key)]
    /\ offered' = DownloadButtons(session_state)
    /\ UNCHANGED <<config, uploaded, want_docx, session_state, pc, fut, in_flight, pct,
                   resp, md, docx>>

\* "Start OCR" with upload and key: the state is cleared, the client made and
\* the task submitted to the executor's one worker
StartAccepted ==
    /\ pc = "idle"
    /\ run.id < MaxRuns
    /\ ValidationErrors(uploaded, api_key) = {}
    /\ offered' = DownloadButtons(session_state)
    /\ session_state' = ClearState(session_state)
    /\ run' = [StartedRun(run, uploaded, api_key, want_docx, TRUE)
                   EXCEPT !.clients = 1, !.submitted = 1,
                          !.request = Some(run_ocr(uploaded[1]))]
    /\ fut' = Future("running", None)
    /\ in_flight' = in_flight + 1
    /\ pct' = 0
    /\ pc' = "poll"
    /\ UNCHANGED <<config, uploaded, want_docx, resp, md, docx>>

\* while not fut.done():
LoopTest ==
    /\ pc = "poll"
    /\ IF FutDone(fut)
       THEN /\ pc' = "result"
            /\ UNCHANGED run
       ELSE /\ run.ticks < MaxTicks
            /\ pc' = "tick"
            /\ run' = [run EXCEPT !.ticks = @ + 1]
    /\ UNCHANGED <<config, uploaded, want_docx, session_state, offered, fut, in_flight,
                   pct, resp, md, docx>>

\* the loop body: pct = (pct + 3) % 100; progress and status; sleep
Tick ==
    /\ pc = "tick"
    /\ pct' = (pct + PCT_STEP) % PCT_MODULUS
    /\ pc' = "poll"
    /\ UNCHANGED <<config, uploaded, want_docx, session_state, offered, fut, in_flight,
                   run, resp, md, docx>>

\* the worker: run_ocr returns the provider's response
WorkerReturn ==
    /\ fut.state = "running"
    /\ \E r \in AppResponses : fut' = Future("returned", Some(r))
    /\ in_flight' = in_flight - 1
    /\ UNCHANGED <<config, uploaded, want_docx, session_state, offered, pc, pct, run,
                   resp, md, docx>>

\* the worker: run_ocr raises
WorkerRaise ==
    /\ fut.state = "running"
    /\ fut' = Future("raised", None)
    /\ in_flight' = in_flight - 1
    /\ UNCHANGED <<config, uploaded, want_docx, session_state, offered, pc, pct, run,
                   resp, md, docx>>

NAME_ERROR == "NameError: name resp is not defined"

Outcome(state, errors, docx_calls, uncaught) ==
    [state |-> state, errors |-> errors, docx_calls |-> docx_calls, uncaught |-> uncaught]

\* variant: the renderer is called without the check of HAS_PYTHON_DOCX
DocxStepUnchecked(state, r, id, want, has) ==
    IF ~want THEN Outcome(state, {}, 0, None)
    ELSE LET d == response_to_docx_bytes(r, has)
         IN  IF d.status = "raised" THEN Outcome(state, {}, 1, Some(d.value))
             ELSE Outcome([state EXCEPT !.docx_bytes = Some(Artifact(id, d.value))], {}, 1, None)

\* "Generate DOCX and store it if requested": the error when the library is
\* missing, else the call, whose exception nothing catches
DocxStep(state, r, id, want, has) ==
    IF ~want THEN Outcome(state, {}, 0, None)
    ELSE IF ~has THEN Outcome(state, {ERR_NO_DOCX}, 0, None)
    ELSE LET d == response_to_docx_bytes(r, has)
         IN  IF d.status = "raised" THEN Outcome(state, {}, 1, Some(d.value))
             ELSE Outcome([state EXCEPT !.docx_bytes = Some(Artifact(id, d.value))], {}, 1, None)

\* "Compose Markdown and store it"
StoreMarkdown(state, r, id) ==
    [state EXCEPT !.md = Some(Artifact(id, response_to_markdown(r)))]

\* resp = fut.result() returns: progress is finished, "Done! Rendering
\* results..." shown, the Markdown stored, the DOCX step taken and the script
\* rerun, which draws the page from the new state
CollectReturned ==
    /\ pc = "result"
    /\ fut.state = "returned"
    /\ LET r == fut.value[1]
           o == DocxStep(StoreMarkdown(session_state, r, run.id), r, run.id,
                         want_docx, HAS_PYTHON_DOCX)
       IN  /\ session_state' = o.state
           /\ run' = [run EXCEPT !.result_reads = @ + 1,
                                 !.done_status = TRUE,
                                 !.md_calls = @ + 1,
                                 !.docx_calls = @ + o.docx_calls,
                                 !.errors = @ \cup o.errors,
                                 !.uncaught = o.uncaught,
                                 !.reran = (o.uncaught = None)]
           /\ offered' = IF o.uncaught = None THEN DownloadButtons(o.state) ELSE offered
    /\ pc' = "idle"
    /\ UNCHANGED <<config, uploaded, want_docx, fut, in_flight, pct, resp, md, docx>>

\* fut.result() raises: the except branch reports the error and falls through
\* to the code after the with block, where resp was never bound
CollectRaised ==
    /\ pc = "result"
    /\ fut.state = "raised"
    /\ run' = [run EXCEPT !.result_reads = @ + 1,
                          !.errors = @ \cup {ERR_OCR},
                          !.done_status = TRUE,
                          !.uncaught = Some(NAME_ERROR)]
    /\ pc' = "idle"
    /\ UNCHANGED <<config, uploaded, want_docx, session_state, offered, fut, in_flight,
                   pct, resp, md, docx>>

Init ==
    /\ HAS_PYTHON_DOCX \in BOOLEAN
    /\ secrets_key \in {None, Some("sk-secret")}
    /\ env_key \in {None, Some(""), Some("sk-env")}
    /\ uploaded = None
    /\ want_docx = FALSE
    /\ session_state = EmptyState
    /\ offered = EmptyState
    /\ pc = "idle"
    /\ fut = Future("none", None)
    /\ in_flight = 0
    /\ pct = 0
    /\ resp = None
    /\ md = None
    /\ docx = None
    /\ run = NoRun

Next ==
    \/ Upload
    \/ ToggleDocx
    \/ Download
    \/ StartRejected
    \/ StartAccepted
    \/ LoopTest
    \/ Tick
    \/ WorkerReturn
    \/ WorkerRaise
    \/ CollectReturned
    \/ CollectRaised

Spec == Init /\ [][Next]_vars

\* ------------------------------------------------- the renderers on their own
InitRender ==
    /\ HAS_PYTHON_DOCX \in BOOLEAN
    /\ secrets_key = None
    /\ env_key = None
    /\ uploaded = None
    /\ want_docx = FALSE
    /\ session_state = EmptyState
    /\ offered = EmptyState
    /\ pc = "idle"
    /\ fut = Future("none", None)
    /\ in_flight = 0
    /\ pct = 0
    /\ resp \in {Some(r) : r \in Responses(MaxPages, 0)}
    /\ md = None
    /\ docx = None
    /\ run = NoRun

\* md = response_to_markdown(resp)
RenderMarkdown ==
    /\ md = None
    /\ md' = Some(response_to_markdown(resp[1]))
    /\ UNCHANGED <<config, app, resp, docx>>

\* response_to_docx_bytes(resp)
RenderDocx ==
    /\ docx = None
    /\ docx' = Some(response_to_docx_bytes(resp[1], HAS_PYTHON_DOCX))
    /\ UNCHANGED <<config, app, resp, md>>

NextRender == RenderMarkdown \/ RenderDocx

SpecRender == InitRender /\ [][NextRender]_vars

\* ================================================================ claims
\* the latest run passed validation, has ended, and its OCR call raised
RunEndedOcrRaised == pc = "idle" /\ run.validated /\ fut.state = "raised"

\* the latest run passed validation, has ended, and its OCR call returned
RunEndedOcrReturned == pc = "idle" /\ run.validated /\ fut.state = "returned"

\* C1: when the OCR call raises in a validated run, the failure is reported,
\* neither renderer is called, no "Done" status is shown, nothing is left
\* uncaught, and Start OCR can be pressed again.
C1_TerminalOnOcrFailure ==
    RunEndedOcrRaised =>
        /\ ERR_OCR \in run.errors
        /\ run.md_calls = 0 /\ run.docx_calls = 0
        /\ ~run.done_status
        /\ run.uncaught = None

\* C2: when the OCR call raised, at the end of the run neither md nor
\* docx_bytes is stored in the session state or offered for download.
C2_NoArtifactAfterOcrFailure ==
    RunEndedOcrRaised => session_state = EmptyState /\ offered = EmptyState

C4_OcrOnlyAfterValidation ==
    /\ (run.clients > 0 \/ run.submitted > 0 \/ fut.state = "running")
          => (run.uploaded # None /\ TruthyStr(run.api_key))
    /\ (run.id > 0 /\ (run.uploaded = None \/ ~TruthyStr(run.api_key))) =>
          /\ (run.uploaded = None <=> ERR_NO_UPLOAD \in run.errors)
          /\ (~TruthyStr(run.api_key) <=> ERR_NO_KEY \in run.errors)
          /\ run.clients = 0 /\ run.submitted = 0 /\ run.ticks = 0
          /\ run.result_reads = 0 /\ run.md_calls = 0 /\ run.docx_calls = 0
          /\ ~run.done_status
          /\ pc = "idle"
    /\ run.api_key = get_api_key(secrets_key, env_key) \/ run.id = 0

\* C4 happens: a second run was rejected for an empty key with a PDF uploaded
C4_Witness ==
    /\ run.id > 1
    /\ run.errors = {ERR_NO_KEY}
    /\ run.api_key = Some("")
    /\ run.uploaded # None
    /\ session_state.md = None

\* C9 (state part): at most one OCR call is in flight, a validated run
\* submits exactly one task, while the worker runs the script is in the
\* polling loop, and the result is read once and only when the worker is done.
C9_OneTaskOneRead ==
    /\ in_flight <= 1
    /\ (in_flight = 1 <=> fut.state = "running")
    /\ run.submitted = (IF run.validated THEN 1 ELSE 0)
    /\ (fut.state = "running" => pc \in {"poll", "tick"})
    /\ run.result_reads <= 1
    /\ (run.result_reads = 1 => fut.state \in {"returned", "raised"})
    /\ ((pc = "idle" /\ run.validated) => run.result_reads = 1)
    /\ (pc # "idle" => run.result_reads = 0)

\* C9 (step part): the worker hands over its one result and touches nothing
\* else; the script never changes a future that is running or done.
C9_WorkerStep ==
    /\ (fut.state = "running" /\ fut' # fut) =>
          /\ fut'.state \in {"returned", "raised"}
          /\ UNCHANGED <<session_state, offered, pc, pct, run, uploaded, want_docx>>
    /\ (fut.state # "running" /\ fut' # fut) => (pc = "idle" /\ fut' = Future("running", None))

\* C9: within a run one task is submitted to the one worker, the script only
\* animates the progress bar until the worker is done, reads the single
\* result once after that, and shares nothing else with the worker.
C9_SingleWorkerHandOff == []C9_OneTaskOneRead /\ [][C9_WorkerStep]_vars

\* C9 happens: a run polled MaxTicks times and then read its result
C9_Witness ==
    /\ pc = "idle" /\ run.validated
    /\ run.ticks = MaxTicks
    /\ run.result_reads = 1
    /\ pct = MaxTicks * PCT_STEP

FromRuns(o, ids) == o # None => o[1].run \in ids

Numbers == 1..(MaxIndex + 1)
Payloads == {B64_PNG, B64_BADPAD, B64_NODIM, B64_NOTIMG}

HeadingTokens == {"### Page " \o ToString(n) : n \in Numbers}

IsHeadingToken(t) == t \in HeadingTokens

ImagePositions == UNION {DOMAIN l[1] : l \in ImageListValues \ {None}}

EmbedTokens ==
    {ImageEmbedToken(n, i, d) : n \in Numbers, i \in ImagePositions, d \in Payloads}

IsEmbedToken(t) == t \in EmbedTokens

RECURSIVE Flatten(_)
Flatten(ss) == IF ss = <<>> THEN <<>> ELSE Head(ss) \o Flatten(Tail(ss))

Positions(s, Test(_)) == SelectSeq([i \in 1..Len(s) |-> i], Test)

HasData(im) == im.image_base64 \notin {None, Some("")}

\* the images of a page as the renderers read them
PageImages(p) == IF p.images = None THEN <<>> ELSE p.images[1]

\* the (page, image) positions that carry data, in input order
DataSlots(pages) ==
    Flatten([k \in 1..Len(pages) |->
        LET ims == PageImages(pages[k])
            InSlot(i) == HasData(ims[i])
        IN  [j \in 1..Len(Positions(ims, InSlot)) |-> <<k, Positions(ims, InSlot)[j]>>]])

\* C5: the Markdown holds one heading per page, in input order, reading
\* "Page <index+1>" (so Page 1..N for indexes 0..N-1), each right after its
\* separator rule; empty pages keep theirs; no pages give the empty string.
C5_OneHeadingPerPage ==
    md # None =>
        LET out == md[1]
            pages == resp[1]
            at == Positions(out, LAMBDA i : IsHeadingToken(out[i]))
        IN  /\ Len(at) = Len(pages)
            /\ \A k \in 1..Len(at) :
                  /\ out[at[k]] = "### Page " \o ToString(pages[k].index + 1)
                  /\ at[k] > 3
                  /\ <<out[at[k] - 3], out[at[k] - 2], out[at[k] - 1]>> = <<"---", "\n", "\n">>
            /\ Len(SelectSeq(out, LAMBDA t : t = "---")) = Len(pages)
            /\ (pages = <<>> => out = <<>>)

\* C5 happens: two pages 0 and 1, the second empty, rendered
C5_Witness ==
    /\ md # None
    /\ Len(resp[1]) = 2
    /\ resp[1][1].index = 0 /\ resp[1][2].index = 1
    /\ resp[1][2].markdown = None /\ resp[1][2].images = None
    /\ md[1][Len(md[1])] = "### Page 2"

\* the embeds of the Markdown, in order, with the caption number that
\* Number(k, i) gives image i of page k
EmbedsNumbered(Number(_, _)) ==
    LET out == md[1]
        pages == resp[1]
        embeds == SelectSeq(out, IsEmbedToken)
        slots == DataSlots(pages)
    IN  /\ Len(embeds) = Len(slots)
        /\ \A j \in 1..Len(slots) :
              LET k == slots[j][1]
                  i == slots[j][2]
              IN  embeds[j] = ImageEmbedToken(pages[k].index + 1, Number(k, i),
                                              PageImages(pages[k])[i].image_base64[1])

\* C6 as stated: one embed per image with data, none for the others, and the
\* k-th embed of a page is captioned "image k".
C6_EmbedsNumberedByEmbed ==
    md # None =>
        EmbedsNumbered(LAMBDA k, i :
            Cardinality({h \in 1..i : HasData(PageImages(resp[1][k])[h])}))

\* C6 amended: one embed per image with data, none for the others, and the
\* embed of the i-th image of a page's list, counting the images without
\* data too, is captioned "image i".
C6_EmbedsNumberedByPosition ==
    md # None => EmbedsNumbered(LAMBDA k, i : i)

\* C6 happens: a page whose first image has no data and whose second has
C6_Witness ==
    /\ md # None
    /\ \E k \in 1..Len(resp[1]) :
          LET ims == PageImages(resp[1][k])
          IN  /\ Len(ims) = 2
              /\ ~HasData(ims[1]) /\ HasData(ims[2])
              /\ \E t \in {md[1][x] : x \in 1..Len(md[1])} :
                    t = ImageEmbedToken(resp[1][k].index + 1, 2, ims[2].image_base64[1])

\* C7: response_to_docx_bytes fails only for the missing library; an image
\* whose sized embed fails is tried once more without a width, and no image
\* makes the rendering fail.
C7_OnlyMissingDependencyFails ==
    docx # None =>
        /\ (docx[1].status = "raised" => (~HAS_PYTHON_DOCX /\ docx[1].value = MissingDocxError))
        /\ (HAS_PYTHON_DOCX => docx[1].status = "returned")
        /\ LET calls == docx[1].calls
           IN  \A c \in 1..Len(calls) :
                  /\ (calls[c][2] = SizedWidth /\ AddPictureRaises(calls[c][1], SizedWidth))
                        => (c < Len(calls) /\ calls[c + 1] = <<calls[c][1], NativeWidth>>)
                  /\ calls[c][2] = NativeWidth
                        => (c > 1 /\ calls[c - 1] = <<calls[c][1], SizedWidth>>)

Kind(e) == e[1]

\* the lines of a text as a reader counts them: one per line end, and one
\* more for text after the last line end
LineCount(text) ==
    Len(SelectSeq(text, LAMBDA t : t = "\n"))
        + (IF text # <<>> /\ text[Len(text)] # "\n" THEN 1 ELSE 0)

TextOf(p) == IF p.markdown = None THEN <<>> ELSE p.markdown[1]

====
